---- MODULE Spec2Model ----
(***************************************************************************)
(* A model of tracing-subscriber-reload-arcswap (src/src/lib.rs).          *)
(*                                                                         *)
(* ArcSwapLayer owns, through two Arcs, an ArcSwap<L> cell (`inner`) and a *)
(* std::sync::Mutex<()> (`modify_lock`).  ArcSwapHandle holds the two Weak *)
(* counterparts.  Threads call the handle operations (reload, modify,      *)
(* with_current, clone_current) and the Layer/Filter operations of the     *)
(* adapter (the pure delegations, represented by `enabled`, and on_layer). *)
(* Every step that reads or writes something another thread can see is an  *)
(* action of its own; the scope-end drops of a call (guard, then the two   *)
(* upgraded Arcs) are one step, because the states in between look to      *)
(* every other thread like states that are reachable anyway.               *)
(*                                                                         *)
(* A wrapped value L is a pair <<a, b>> of levels; a value built by a      *)
(* conversion or left by a completed closure has a = b, a closure mutates  *)
(* the two components one after the other.  An Arc<L> is [id, val]: id is  *)
(* the number of the allocation (0 for the one made by `new`).             *)
(*                                                                         *)
(* Specifications: Spec has every operation, called again and again, with  *)
(* the adapter cloned and dropped; FairSpec adds fair scheduling.          *)
(* SpecTwoReloads and SpecWriters have every thread make one write call,   *)
(* SpecViews adds the making and cloning of handles, and SpecReentrant     *)
(* lets the closure of with_current call reload or modify itself.          *)
(***************************************************************************)
EXTENDS Integers, FiniteSets, Sequences, Bags, TLC

\* ------------------------------------------------------------------ bounds
NumThreads == 2    \* threads sharing the handle and the adapter
MaxLayers  == 2    \* ArcSwapLayer values alive at once (the adapter and its clones)
MaxVal     == 1    \* levels are 0..MaxVal
MaxWrites  == 2    \* stores into the cell after construction
MaxHandles == 3    \* ArcSwapHandle values alive at once

Threads == 1..NumThreads
Vals    == 0..MaxVal

VARIABLES
    inner,          \* the Arc<L> the ArcSwap currently holds: [id, val]
    modify_lock,    \* the Mutex<()>: [locked, poisoned]
    layers,         \* number of live ArcSwapLayer values (the adapter and its clones)
    adapters,       \* the bag of what the live ArcSwapLayer values point to: [cell, lock]
    handles,        \* the bag of what the live ArcSwapHandle values point to: [cell, lock]
    dropping,       \* layers in drop glue: `inner` released, `modify_lock` not yet
    interest_cache, \* id of the Arc<L> the callsite interest cache was last rebuilt from
    pc,             \* per thread: the statement it is about to execute
    fr,             \* per thread: the locals of the call in progress and its result
                    \* (at_lock, stored, rebuilt record what the call did; outer is
                    \* the snapshot of the with_current whose closure made this call,
                    \* nested the outcome of the call a closure made)
    at_call,        \* per thread: what held when the call in progress was invoked
    returned        \* [id, val] of the newest store whose reload has returned Ok

vars == <<inner, modify_lock, layers, dropping, interest_cache, pc, fr, at_call, returned,
          adapters, handles>>

\* ------------------------------------------------------------ pure helpers
\* new_value.into(): the conversion into L builds a complete value.
Into(n) == <<n, n>>

\* The mutation a modify closure (or the wrapped value's own on_layer) makes,
\* one component at a time.
Bump(x) == (x + 1) % (MaxVal + 1)
MutateFirst(v)  == <<Bump(v[1]), v[2]>>
MutateSecond(v) == <<v[1], Bump(v[2])>>
Mutated(v) == MutateSecond(MutateFirst(v))

\* The wrapped filter's answer to enabled(level): a level threshold.
Enabled(v, level) == level <= v[1]

NoArc  == [id |-> -1, val |-> <<0, 0>>]
NoVal  == <<-1, -1>>
NoArg  == -1
NoNested == [res |-> "none", stored |-> -1]

\* What an ArcSwapLayer (two Arcs) or an ArcSwapHandle (two Weaks) points to:
\* the allocation of the cell and the allocation of the mutex.  `new` makes
\* allocation 0 of each, which the variables inner and modify_lock describe.
View0  == [cell |-> 0, lock |-> 0]
NoView == [cell |-> -1, lock |-> -1]

HandleOps == {"reload", "modify", "with_current", "clone_current"}
LayerOps  == {"enabled", "on_layer"}
WriteOps  == {"reload", "modify", "on_layer"}

Frame0 ==
    [op |-> "none", arg |-> NoArg, up_inner |-> FALSE, up_lock |-> FALSE,
     at_lock |-> -1, current |-> NoArc, next |-> NoVal, stored |-> -1, rebuilt |-> 0,
     res |-> "none", out |-> NoVal, ans |-> "none", panicking |-> FALSE,
     outer |-> NoArc, nested |-> NoNested, via |-> NoView, outer_via |-> NoView]

AtCall0 == [gone |-> FALSE, poisoned |-> FALSE, val |-> NoVal]

\* Arc strong counts: every live layer owns one reference to each Arc, a layer
\* in drop glue still owns modify_lock, and a call owns what it upgraded (a
\* with_current whose closure is inside a nested call still owns its Arc).
InnerStrong == layers + Cardinality({t \in Threads : fr[t].up_inner})
                      + Cardinality({t \in Threads : fr[t].outer # NoArc})
LockStrong  == layers + dropping + Cardinality({t \in Threads : fr[t].up_lock})

Running(t)  == pc[t] \notin {"idle", "done"}
InLayerOp(o) == {t \in Threads : Running(t) /\ fr[t].op = o}
\* &mut self calls need a layer of their own, & self calls can share one.
Borrowed == Cardinality(InLayerOp("on_layer"))
              + (IF InLayerOp("enabled") = {} THEN 0 ELSE 1)
WritesInFlight == Cardinality({t \in Threads : Running(t) /\ fr[t].op \in WriteOps})

\* ------------------------------------------------------------------- init
Init ==
    /\ \E n \in Vals : inner = [id |-> 0, val |-> Into(n)]
    /\ modify_lock = [locked |-> FALSE, poisoned |-> FALSE]
    /\ layers = 1
    /\ adapters = SetToBag({View0})
    /\ handles = SetToBag({View0})
    /\ dropping = 0
    /\ interest_cache = 0
    /\ pc = [t \in Threads |-> "idle"]
    /\ fr = [t \in Threads |-> Frame0]
    /\ at_call = [t \in Threads |-> AtCall0]
    /\ returned = NoArc

\* ----------------------------------------------------------- call and return
\* What a call leaves behind when it returns: its result; the upgraded Arcs and
\* the private duplicate are dropped at scope end.
Finished(f, r) ==
    [f EXCEPT !.up_inner = FALSE, !.up_lock = FALSE, !.next = NoVal, !.res = r]

\* Faulty variant: .unwrap() where the code has `?`: a failed upgrade or lock panics.
Failed_Unwrap(f, err) ==
    Finished(f, "panic")

\* `?` on a failed upgrade or lock: clone_current turns the error into None.
Failed(f, err) ==
    Finished(f, IF f.op = "clone_current" THEN "None" ELSE err)

\* Recorded when a call is invoked: whether every adapter was already dropped,
\* whether the mutex was already poisoned, and (modify) the value then current.
Invoked(o) ==
    [gone     |-> (layers = 0 /\ dropping = 0),
     poisoned |-> modify_lock.poisoned,
     val      |-> IF o = "modify" THEN inner.val ELSE NoVal]

\* A thread invokes reload, modify, with_current or clone_current on one of
\* the handles.  Writers are admitted while the cell can still take their store
\* (MaxWrites).
CallHandle(t, o) ==
    /\ pc[t] \in {"idle", "done"}
    /\ o \in WriteOps => inner.id + WritesInFlight < MaxWrites
    /\ pc' = [pc EXCEPT ![t] = "upgrade_inner"]
    /\ \E h \in BagToSet(handles) :
           fr' = [fr EXCEPT ![t] = [Frame0 EXCEPT !.op = o, !.via = h]]
    /\ at_call' = [at_call EXCEPT ![t] = Invoked(o)]
    /\ UNCHANGED <<inner, modify_lock, layers, dropping, interest_cache, returned, adapters, handles>>

\* A thread invokes a Layer/Filter method on a live adapter it borrows:
\* enabled(&self) stands for the pure delegations, on_layer takes &mut self.
CallLayer(t, o) ==
    /\ pc[t] \in {"idle", "done"}
    /\ IF o = "on_layer"
         THEN layers > Borrowed /\ inner.id + WritesInFlight < MaxWrites
         ELSE layers > Cardinality(InLayerOp("on_layer"))
    /\ pc' = [pc EXCEPT ![t] = IF o = "on_layer" THEN "lock" ELSE "load"]
    /\ \E a \in BagToSet(adapters) :
           fr' = [fr EXCEPT ![t] = [Frame0 EXCEPT !.op = o, !.via = a]]
    /\ at_call' = [at_call EXCEPT ![t] = Invoked(o)]
    /\ UNCHANGED <<inner, modify_lock, layers, dropping, interest_cache, returned, adapters, handles>>

\* ------------------------------------------------------------ handle: upgrade
\* self.inner.upgrade().ok_or(SubscriberGone)?
UpgradeInner(t) ==
    /\ pc[t] = "upgrade_inner"
    /\ IF InnerStrong > 0
         THEN /\ fr' = [fr EXCEPT ![t].up_inner = TRUE]
              /\ pc' = [pc EXCEPT ![t] =
                            IF fr[t].op \in {"reload", "modify"}
                              THEN "upgrade_lock" ELSE "load"]
         ELSE /\ fr' = [fr EXCEPT ![t] = Failed(@, "SubscriberGone")]
              /\ pc' = [pc EXCEPT ![t] = "done"]
    /\ UNCHANGED <<inner, modify_lock, layers, dropping, interest_cache, at_call, returned, adapters, handles>>

\* self.modify_lock.upgrade().ok_or(SubscriberGone)?
UpgradeLock(t) ==
    /\ pc[t] = "upgrade_lock"
    /\ IF LockStrong > 0
         THEN /\ fr' = [fr EXCEPT ![t].up_lock = TRUE]
              /\ pc' = [pc EXCEPT ![t] = "lock"]
         ELSE /\ fr' = [fr EXCEPT ![t] = Failed(@, "SubscriberGone")]
              /\ pc' = [pc EXCEPT ![t] = "done"]
    /\ UNCHANGED <<inner, modify_lock, layers, dropping, interest_cache, at_call, returned, adapters, handles>>

\* ------------------------------------------------------------- write paths
\* Faulty variant: `let _ = modify_lock.lock()`: the guard is dropped at once and the
\* critical section runs without it.
Lock_GuardDropped(t) ==
    /\ pc[t] = "lock"
    /\ fr[t].op \in {"reload", "modify"}
    /\ ~modify_lock.locked
    /\ IF modify_lock.poisoned
         THEN /\ fr' = [fr EXCEPT ![t] = Failed(@, "Poisoned")]
              /\ pc' = [pc EXCEPT ![t] = "done"]
         ELSE /\ pc' = [pc EXCEPT ![t] =
                            IF fr[t].op = "reload" THEN "store" ELSE "load_full"]
              /\ fr' = [fr EXCEPT ![t].at_lock = inner.id]
    /\ UNCHANGED <<inner, modify_lock, layers, dropping, interest_cache, at_call, returned, adapters, handles>>

\* Faulty variant: try_lock-like acquisition that does not wait for the holder.
Lock_NoExclusion(t) ==
    /\ pc[t] = "lock"
    /\ fr[t].op \in {"reload", "modify"}
    /\ IF modify_lock.poisoned
         THEN /\ fr' = [fr EXCEPT ![t] = Failed(@, "Poisoned")]
              /\ pc' = [pc EXCEPT ![t] = "done"]
              /\ UNCHANGED modify_lock
         ELSE /\ modify_lock' = [modify_lock EXCEPT !.locked = TRUE]
              /\ pc' = [pc EXCEPT ![t] =
                            IF fr[t].op = "reload" THEN "store" ELSE "load_full"]
              /\ fr' = [fr EXCEPT ![t].at_lock = inner.id]
    /\ UNCHANGED <<inner, layers, dropping, interest_cache, at_call, returned, adapters, handles>>

\* Faulty variant: lock().unwrap_or_else(PoisonError::into_inner): poison is ignored.
Lock_IgnorePoison(t) ==
    /\ pc[t] = "lock"
    /\ fr[t].op \in {"reload", "modify"}
    /\ ~modify_lock.locked
    /\ modify_lock' = [modify_lock EXCEPT !.locked = TRUE]
    /\ pc' = [pc EXCEPT ![t] = IF fr[t].op = "reload" THEN "store" ELSE "load_full"]
    /\ fr' = [fr EXCEPT ![t].at_lock = inner.id]
    /\ UNCHANGED <<inner, layers, dropping, interest_cache, at_call, returned, adapters, handles>>

\* modify_lock.lock().map_err(|_| Error::poisoned())? in reload and modify:
\* lock() waits until the mutex is free and reports a poisoned mutex as Err.
Lock(t) ==
    /\ pc[t] = "lock"
    /\ fr[t].op \in {"reload", "modify"}
    /\ ~modify_lock.locked
    /\ IF modify_lock.poisoned
         THEN /\ fr' = [fr EXCEPT ![t] = Failed(@, "Poisoned")]
              /\ pc' = [pc EXCEPT ![t] = "done"]
              /\ UNCHANGED modify_lock
         ELSE /\ modify_lock' = [modify_lock EXCEPT !.locked = TRUE]
              /\ pc' = [pc EXCEPT ![t] =
                            IF fr[t].op = "reload" THEN "store" ELSE "load_full"]
              /\ fr' = [fr EXCEPT ![t].at_lock = inner.id]
    /\ UNCHANGED <<inner, layers, dropping, interest_cache, at_call, returned, adapters, handles>>

\* Faulty variant: the guard is recovered from the poisoned mutex
\* (PoisonError::into_inner) and on_layer goes on to publish.
LayerLock_IntoInner(t) ==
    /\ pc[t] = "lock"
    /\ fr[t].op = "on_layer"
    /\ ~modify_lock.locked
    /\ modify_lock' = [modify_lock EXCEPT !.locked = TRUE]
    /\ pc' = [pc EXCEPT ![t] = "load_full"]
    /\ fr' = [fr EXCEPT ![t].at_lock = inner.id]
    /\ UNCHANGED <<inner, layers, dropping, interest_cache, at_call, returned, adapters, handles>>

\* Faulty variant: on_layer loads, duplicates and stores without taking the mutex.
LayerLock_Unguarded(t) ==
    /\ pc[t] = "lock"
    /\ fr[t].op = "on_layer"
    /\ pc' = [pc EXCEPT ![t] = "load_full"]
    /\ fr' = [fr EXCEPT ![t].at_lock = inner.id]
    /\ UNCHANGED <<inner, modify_lock, layers, dropping, interest_cache, at_call, returned, adapters, handles>>

\* on_layer's match on self.modify_lock.lock(): on a poisoned mutex it returns
\* when the thread is already panicking (std::thread::panicking(), recorded in
\* the frame) and panics otherwise.
LayerLock(t) ==
    /\ pc[t] = "lock"
    /\ fr[t].op = "on_layer"
    /\ ~modify_lock.locked
    /\ IF modify_lock.poisoned
         THEN /\ \E panicking \in BOOLEAN :
                    fr' = [fr EXCEPT ![t] =
                              Finished([@ EXCEPT !.panicking = panicking],
                                       IF panicking THEN "noop" ELSE "panic")]
              /\ pc' = [pc EXCEPT ![t] = "done"]
              /\ UNCHANGED modify_lock
         ELSE /\ modify_lock' = [modify_lock EXCEPT !.locked = TRUE]
              /\ pc' = [pc EXCEPT ![t] = "load_full"]
              /\ fr' = [fr EXCEPT ![t].at_lock = inner.id]
    /\ UNCHANGED <<inner, layers, dropping, interest_cache, at_call, returned, adapters, handles>>

\* Faulty variant: the guard is leaked when the critical section panics
\* (mem::forget semantics): the mutex stays locked for ever.
Unwind_GuardLeaked(t, f) ==
    /\ UNCHANGED modify_lock
    /\ fr' = [fr EXCEPT ![t] = Finished(f, "panic")]
    /\ pc' = [pc EXCEPT ![t] = "done"]

\* A panic inside the critical section: the guard is dropped while the thread
\* unwinds, which poisons the mutex; the call does not return a value.
Unwind(t, f) ==
    /\ modify_lock' = [locked |-> FALSE, poisoned |-> TRUE]
    /\ fr' = [fr EXCEPT ![t] = Finished(f, "panic")]
    /\ pc' = [pc EXCEPT ![t] = "done"]

\* Faulty variant: the new Arc is built but never put into the shared cell.
Store_Lost(t) ==
    /\ pc[t] = "store"
    /\ \E n \in Vals :
         /\ fr' = [fr EXCEPT ![t].arg = n, ![t].stored = inner.id + 1]
         /\ pc' = [pc EXCEPT ![t] = "rebuild"]
    /\ UNCHANGED <<inner, modify_lock, layers, dropping, interest_cache, at_call, returned, adapters, handles>>

\* Faulty variant: the interest cache is rebuilt only when the value changed.
Store_SkipSame(t) ==
    /\ pc[t] = "store"
    /\ \E n \in Vals :
         /\ inner' = [id |-> inner.id + 1, val |-> Into(n)]
         /\ fr' = [fr EXCEPT ![t].arg = n, ![t].stored = inner.id + 1]
         /\ pc' = [pc EXCEPT ![t] =
                       IF Into(n) = inner.val THEN "return" ELSE "rebuild"]
    /\ UNCHANGED <<modify_lock, layers, dropping, interest_cache, at_call, returned, adapters, handles>>

\* Faulty variant: the guard is released right after the store (the guard scoped to
\* the store alone), so the interest cache is rebuilt outside the critical section.
Store_ReleaseEarly(t) ==
    /\ pc[t] = "store"
    /\ \E n \in Vals :
         /\ inner' = [id |-> inner.id + 1, val |-> Into(n)]
         /\ fr' = [fr EXCEPT ![t].arg = n, ![t].stored = inner.id + 1]
         /\ pc' = [pc EXCEPT ![t] = "rebuild"]
    /\ modify_lock' = [modify_lock EXCEPT !.locked = FALSE]
    /\ UNCHANGED <<layers, dropping, interest_cache, at_call, returned, adapters, handles>>

\* reload: inner.store(Arc::new(new_value.into())); the conversion is the
\* caller's code and runs with the guard held.
Store(t) ==
    /\ pc[t] = "store"
    /\ \E n \in Vals, fault \in BOOLEAN :
         IF fault
           THEN /\ Unwind(t, [fr[t] EXCEPT !.arg = n])
                /\ UNCHANGED inner
           ELSE /\ inner' = [id |-> inner.id + 1, val |-> Into(n)]
                /\ fr' = [fr EXCEPT ![t].arg = n, ![t].stored = inner.id + 1]
                /\ pc' = [pc EXCEPT ![t] = "rebuild"]
                /\ UNCHANGED modify_lock
    /\ UNCHANGED <<layers, dropping, interest_cache, at_call, returned, adapters, handles>>

\* Faulty variant: the duplicate is taken from the value that was current when the
\* call was invoked, not from the value loaded under the guard.
LoadFull_Early(t) ==
    /\ pc[t] = "load_full"
    /\ fr' = [fr EXCEPT ![t].current = inner,
                        ![t].next = IF fr[t].op = "modify"
                                      THEN at_call[t].val ELSE inner.val]
    /\ pc' = [pc EXCEPT ![t] = "apply"]
    /\ UNCHANGED <<inner, modify_lock, layers, dropping, interest_cache, at_call, returned, adapters, handles>>

\* modify and on_layer: let current = inner.load_full();
\*                       let mut next = (*current).clone();
LoadFull(t) ==
    /\ pc[t] = "load_full"
    /\ fr' = [fr EXCEPT ![t].current = inner, ![t].next = inner.val]
    /\ pc' = [pc EXCEPT ![t] = "apply"]
    /\ UNCHANGED <<inner, modify_lock, layers, dropping, interest_cache, at_call, returned, adapters, handles>>

\* Faulty variant: the callback mutates the shared value in place, not a duplicate.
Apply_InPlace(t) ==
    /\ pc[t] = "apply"
    /\ inner' = [inner EXCEPT !.val = MutateFirst(@)]
    /\ fr' = [fr EXCEPT ![t].next = MutateFirst(@)]
    /\ pc' = [pc EXCEPT ![t] = "apply_mid"]
    /\ UNCHANGED <<modify_lock, layers, dropping, interest_cache, at_call, returned, adapters, handles>>

\* Faulty variant: the callback's first change is published before the callback
\* has finished (a store after every field update).
Apply_PublishHalf(t) ==
    /\ pc[t] = "apply"
    /\ inner' = [id |-> inner.id + 1, val |-> MutateFirst(fr[t].next)]
    /\ fr' = [fr EXCEPT ![t].next = MutateFirst(@)]
    /\ pc' = [pc EXCEPT ![t] = "apply_mid"]
    /\ UNCHANGED <<modify_lock, layers, dropping, interest_cache, at_call, returned, adapters, handles>>

\* f(&mut next) / next.on_layer(subscriber): the callback starts on the duplicate ...
Apply(t) ==
    /\ pc[t] = "apply"
    /\ fr' = [fr EXCEPT ![t].next = MutateFirst(@)]
    /\ pc' = [pc EXCEPT ![t] = "apply_mid"]
    /\ UNCHANGED <<inner, modify_lock, layers, dropping, interest_cache, at_call, returned, adapters, handles>>

\* ... and completes it, or panics half way.
ApplyMid(t) ==
    /\ pc[t] = "apply_mid"
    /\ \E fault \in BOOLEAN :
         IF fault
           THEN Unwind(t, fr[t])
           ELSE /\ fr' = [fr EXCEPT ![t].next = MutateSecond(@)]
                /\ pc' = [pc EXCEPT ![t] = "store_next"]
                /\ UNCHANGED modify_lock
    /\ UNCHANGED <<inner, layers, dropping, interest_cache, at_call, returned, adapters, handles>>

\* Faulty variant: modify forgets to rebuild the interest cache.
StoreNext_NoRebuild(t) ==
    /\ pc[t] = "store_next"
    /\ inner' = [id |-> inner.id + 1, val |-> fr[t].next]
    /\ fr' = [fr EXCEPT ![t].stored = inner.id + 1]
    /\ pc' = [pc EXCEPT ![t] = "return"]
    /\ UNCHANGED <<modify_lock, layers, dropping, interest_cache, at_call, returned, adapters, handles>>

\* inner.store(Arc::new(next)); modify goes on to rebuild the interest cache,
\* on_layer returns.
StoreNext(t) ==
    /\ pc[t] = "store_next"
    /\ inner' = [id |-> inner.id + 1, val |-> fr[t].next]
    /\ fr' = [fr EXCEPT ![t].stored = inner.id + 1]
    /\ pc' = [pc EXCEPT ![t] = IF fr[t].op = "modify" THEN "rebuild" ELSE "return"]
    /\ UNCHANGED <<modify_lock, layers, dropping, interest_cache, at_call, returned, adapters, handles>>

\* callsite::rebuild_interest_cache(): the cache is recomputed against the
\* value the cell holds now.
Rebuild(t) ==
    /\ pc[t] = "rebuild"
    /\ interest_cache' = inner.id
    /\ fr' = [fr EXCEPT ![t].rebuilt = @ + 1]
    /\ pc' = [pc EXCEPT ![t] = "return"]
    /\ UNCHANGED <<inner, modify_lock, layers, dropping, at_call, returned, adapters, handles>>

\* Ok(()) / end of on_layer: the guard is released, the upgraded Arcs dropped.
Return(t) ==
    /\ pc[t] = "return"
    /\ modify_lock' = [modify_lock EXCEPT !.locked = FALSE]
    /\ fr' = [fr EXCEPT ![t] = Finished(@, "Ok")]
    /\ pc' = [pc EXCEPT ![t] = "done"]
    /\ returned' = IF fr[t].op = "reload" /\ fr[t].stored > returned.id
                     THEN [id |-> fr[t].stored, val |-> Into(fr[t].arg)]
                     ELSE returned
    /\ UNCHANGED <<inner, layers, dropping, interest_cache, at_call, adapters, handles>>

\* -------------------------------------------------------------- read paths
\* Faulty variant: the read path takes the writers' mutex (an RwLock-style read).
Load_Locked(t) ==
    /\ pc[t] = "load"
    /\ ~modify_lock.locked
    /\ fr' = [fr EXCEPT ![t].current = inner]
    /\ pc' = [pc EXCEPT ![t] = "closure"]
    /\ UNCHANGED <<inner, modify_lock, layers, dropping, interest_cache, at_call, returned, adapters, handles>>

\* Faulty variant: with_current takes the write guard and holds it while the
\* closure runs.
Load_HoldGuard(t) ==
    /\ pc[t] = "load"
    /\ ~modify_lock.locked
    /\ modify_lock' = [modify_lock EXCEPT !.locked = TRUE]
    /\ fr' = [fr EXCEPT ![t].current = inner]
    /\ pc' = [pc EXCEPT ![t] = "closure"]
    /\ UNCHANGED <<inner, layers, dropping, interest_cache, at_call, returned, adapters, handles>>

\* inner.load() in with_current (hence clone_current) and in every pure
\* delegation of the adapter: no lock is involved.
Load(t) ==
    /\ pc[t] = "load"
    /\ fr' = [fr EXCEPT ![t].current = inner]
    /\ pc' = [pc EXCEPT ![t] = "closure"]
    /\ UNCHANGED <<inner, modify_lock, layers, dropping, interest_cache, at_call, returned, adapters, handles>>

\* Faulty variant: the adapter forwards the call to whatever the cell holds when
\* the wrapped method runs (a second load), not to the snapshot it loaded.
Closure_SecondLoad(t) ==
    /\ pc[t] = "closure"
    /\ \E level \in Vals :
         LET f == fr[t] IN
         fr' = [fr EXCEPT ![t] =
                  IF f.op = "enabled"
                    THEN Finished([f EXCEPT !.arg = level,
                                            !.ans = IF Enabled(inner.val, level)
                                                      THEN "true" ELSE "false"], "Ok")
                    ELSE Finished([f EXCEPT !.out = f.current.val],
                                  IF f.op = "clone_current" THEN "Some" ELSE "Ok")]
    /\ pc' = [pc EXCEPT ![t] = "done"]
    /\ UNCHANGED <<inner, modify_lock, layers, dropping, interest_cache, at_call, returned, adapters, handles>>

\* Ok(f(current.as_ref())): with_current hands the snapshot to the closure,
\* clone_current clones it, the adapter forwards the call to it.
Closure(t) ==
    /\ pc[t] = "closure"
    /\ \E level \in Vals :
         LET f == fr[t] IN
         fr' = [fr EXCEPT ![t] =
                  IF f.op = "enabled"
                    THEN Finished([f EXCEPT !.arg = level,
                                            !.ans = IF Enabled(f.current.val, level)
                                                      THEN "true" ELSE "false"], "Ok")
                    ELSE Finished([f EXCEPT !.out = f.current.val],
                                  IF f.op = "clone_current" THEN "Some" ELSE "Ok")]
    /\ pc' = [pc EXCEPT ![t] = "done"]
    /\ UNCHANGED <<inner, modify_lock, layers, dropping, interest_cache, at_call, returned, adapters, handles>>

\* ------------------------------------------- a closure that calls the handle
\* The closure given to with_current (lib.rs:297) is the caller's code: it can
\* call reload or modify on a handle of the same cell.  The nested call runs on
\* the closure's thread while with_current keeps its upgraded Arc and its
\* snapshot.
NestedCall(t, o) ==
    /\ pc[t] = "closure"
    /\ fr[t].op = "with_current"
    /\ fr[t].nested = NoNested
    /\ o \in {"reload", "modify"}
    /\ inner.id + WritesInFlight < MaxWrites
    /\ pc' = [pc EXCEPT ![t] = "upgrade_inner"]
    /\ \E h \in BagToSet(handles) :
           fr' = [fr EXCEPT ![t] = [Frame0 EXCEPT !.op = o, !.via = h,
                                                  !.outer = fr[t].current,
                                                  !.outer_via = fr[t].via]]
    /\ at_call' = [at_call EXCEPT ![t] = Invoked(o)]
    /\ UNCHANGED <<inner, modify_lock, layers, dropping, interest_cache, returned, adapters, handles>>

\* The nested call has returned: the closure goes on with the snapshot
\* with_current gave it.  A panic of the nested call unwinds through the closure
\* and through with_current, which holds no guard.
Resume(t) ==
    /\ pc[t] = "done"
    /\ fr[t].outer # NoArc
    /\ LET f == [Frame0 EXCEPT !.op = "with_current", !.up_inner = TRUE,
                               !.via = fr[t].outer_via,
                               !.current = fr[t].outer,
                               !.nested = [res |-> fr[t].res, stored |-> fr[t].stored]]
       IN IF fr[t].res = "panic"
            THEN /\ fr' = [fr EXCEPT ![t] = Finished(f, "panic")]
                 /\ pc' = [pc EXCEPT ![t] = "done"]
            ELSE /\ fr' = [fr EXCEPT ![t] = f]
                 /\ pc' = [pc EXCEPT ![t] = "closure"]
    /\ UNCHANGED <<inner, modify_lock, layers, dropping, interest_cache, at_call, returned, adapters, handles>>

\* ------------------------------------------------------------- the adapter
\* Faulty variant: a deep clone: the clone gets a cell and a mutex of its own,
\* holding a copy of the current value.
CloneLayer_Deep ==
    /\ layers > Cardinality(InLayerOp("on_layer"))
    /\ layers + dropping < MaxLayers
    /\ layers' = layers + 1
    /\ \E a \in BagToSet(adapters) :
           adapters' = adapters (+) SetToBag({[cell |-> a.cell + 1, lock |-> a.lock + 1]})
    /\ UNCHANGED <<inner, modify_lock, dropping, interest_cache, pc, fr, at_call, returned, handles>>

\* Clone for ArcSwapLayer: inner.clone() and modify_lock.clone() are Arc
\* clones: the clone points to what the cloned adapter points to, and each of
\* the two Arcs has one more strong reference.
CloneLayer ==
    /\ layers > Cardinality(InLayerOp("on_layer"))
    /\ layers + dropping < MaxLayers
    /\ layers' = layers + 1
    /\ \E a \in BagToSet(adapters) : adapters' = adapters (+) SetToBag({a})
    /\ UNCHANGED <<inner, modify_lock, dropping, interest_cache, pc, fr, at_call, returned, handles>>

\* ArcSwapLayer::handle: Arc::downgrade of the adapter's two Arcs.
MakeHandle ==
    /\ BagCardinality(handles) < MaxHandles
    /\ \E a \in BagToSet(adapters) :
           handles' = handles (+) SetToBag({[cell |-> a.cell, lock |-> a.lock]})
    /\ UNCHANGED <<inner, modify_lock, layers, dropping, interest_cache, pc, fr, at_call, returned, adapters>>

\* Clone for ArcSwapHandle: Weak clones of the handle's two Weaks.
CloneHandle ==
    /\ BagCardinality(handles) < MaxHandles
    /\ \E h \in BagToSet(handles) : handles' = handles (+) SetToBag({h})
    /\ UNCHANGED <<inner, modify_lock, layers, dropping, interest_cache, pc, fr, at_call, returned, adapters>>

\* Dropping an adapter nobody borrows: the field `inner` goes first ...
DropLayerInner ==
    /\ layers > Borrowed
    /\ layers' = layers - 1
    /\ dropping' = dropping + 1
    /\ \E a \in BagToSet(adapters) : adapters' = adapters (-) SetToBag({a})
    /\ UNCHANGED <<inner, modify_lock, interest_cache, pc, fr, at_call, returned, handles>>

\* ... then the field `modify_lock`.
DropLayerLock ==
    /\ dropping > 0
    /\ dropping' = dropping - 1
    /\ UNCHANGED <<inner, modify_lock, layers, interest_cache, pc, fr, at_call, returned, adapters, handles>>

Next ==
    \/ \E t \in Threads, o \in HandleOps : CallHandle(t, o)
    \/ \E t \in Threads, o \in LayerOps : CallLayer(t, o)
    \/ \E t \in Threads : UpgradeInner(t)
    \/ \E t \in Threads : UpgradeLock(t)
    \/ \E t \in Threads : Lock(t)
    \/ \E t \in Threads : LayerLock(t)
    \/ \E t \in Threads : Store(t)
    \/ \E t \in Threads : LoadFull(t)
    \/ \E t \in Threads : Apply(t)
    \/ \E t \in Threads : ApplyMid(t)
    \/ \E t \in Threads : StoreNext(t)
    \/ \E t \in Threads : Rebuild(t)
    \/ \E t \in Threads : Return(t)
    \/ \E t \in Threads : Load(t)
    \/ \E t \in Threads : Closure(t)
    \/ CloneLayer
    \/ DropLayerInner
    \/ DropLayerLock

Spec == Init /\ [][Next]_vars

\* ------------------------------------------------------- fair scheduling
\* A step of the call thread t is executing.  The steps other than the lock
\* acquisition never wait for another thread; the operating system runs every
\* thread again and again (weak fairness), and a thread waiting in lock() gets
\* the mutex at one of the moments it is free (strong fairness).
Step(t) ==
    \/ UpgradeInner(t) \/ UpgradeLock(t)
    \/ Store(t) \/ LoadFull(t) \/ Apply(t) \/ ApplyMid(t) \/ StoreNext(t)
    \/ Rebuild(t) \/ Return(t)
    \/ Load(t) \/ Closure(t)

Acquire(t) == Lock(t) \/ LayerLock(t)

FairSpec ==
    /\ Spec
    /\ \A t \in Threads : WF_vars(Step(t)) /\ SF_vars(Acquire(t))

\* ------------------------------------------------ two concurrent reloads
\* Every thread calls reload exactly once on a handle of a live adapter; there
\* is no other writer and the adapter is not dropped.
CallReloadOnce(t) == pc[t] = "idle" /\ CallHandle(t, "reload")

NextTwoReloads ==
    \/ \E t \in Threads : CallReloadOnce(t)
    \/ \E t \in Threads : UpgradeInner(t)
    \/ \E t \in Threads : UpgradeLock(t)
    \/ \E t \in Threads : Lock(t)
    \/ \E t \in Threads : Store(t)
    \/ \E t \in Threads : Rebuild(t)
    \/ \E t \in Threads : Return(t)

SpecTwoReloads == Init /\ [][NextTwoReloads]_vars

\* ------------------------------------------------ concurrent writers
\* Every thread makes one write call (reload or modify on a handle, on_layer on
\* an adapter of its own), all of them concurrently; no adapter is dropped.
CallWriteOnce(t) ==
    /\ pc[t] = "idle"
    /\ \/ \E o \in {"reload", "modify"} : CallHandle(t, o)
       \/ CallLayer(t, "on_layer")

NextWriters ==
    \/ \E t \in Threads : CallWriteOnce(t)
    \/ \E t \in Threads : UpgradeInner(t)
    \/ \E t \in Threads : UpgradeLock(t)
    \/ \E t \in Threads : Lock(t)
    \/ \E t \in Threads : LayerLock(t)
    \/ \E t \in Threads : Store(t)
    \/ \E t \in Threads : LoadFull(t)
    \/ \E t \in Threads : Apply(t)
    \/ \E t \in Threads : ApplyMid(t)
    \/ \E t \in Threads : StoreNext(t)
    \/ \E t \in Threads : Rebuild(t)
    \/ \E t \in Threads : Return(t)
    \/ CloneLayer

SpecWriters == Init /\ [][NextWriters]_vars

\* ------------------------------------------------ re-entrant closures
\* Threads call reload, modify and with_current on handles of a live adapter,
\* and a with_current closure may call reload or modify itself.  Scheduling is
\* fair as in FairSpec; a closure is not obliged to make a nested call.
CallTop(t, o) == fr[t].outer = NoArc /\ CallHandle(t, o)

NextReentrant ==
    \/ \E t \in Threads, o \in {"reload", "modify", "with_current"} : CallTop(t, o)
    \/ \E t \in Threads, o \in {"reload", "modify"} : NestedCall(t, o)
    \/ \E t \in Threads : Resume(t)
    \/ \E t \in Threads : UpgradeInner(t)
    \/ \E t \in Threads : UpgradeLock(t)
    \/ \E t \in Threads : Lock(t)
    \/ \E t \in Threads : Store(t)
    \/ \E t \in Threads : LoadFull(t)
    \/ \E t \in Threads : Apply(t)
    \/ \E t \in Threads : ApplyMid(t)
    \/ \E t \in Threads : StoreNext(t)
    \/ \E t \in Threads : Rebuild(t)
    \/ \E t \in Threads : Return(t)
    \/ \E t \in Threads : Load(t)
    \/ \E t \in Threads : Closure(t)

SpecReentrant ==
    /\ Init
    /\ [][NextReentrant]_vars
    /\ \A t \in Threads :
           WF_vars(Step(t)) /\ WF_vars(Resume(t)) /\ SF_vars(Acquire(t))

\* ------------------------------------------------ handles and clones
\* Handles are made and cloned and the adapter is cloned while every thread
\* makes one call through any of the handles (reload, modify, with_current) or
\* a pure delegation call on any of the adapters.
CallViaOnce(t) ==
    /\ pc[t] = "idle"
    /\ \/ \E o \in {"reload", "modify", "with_current"} : CallHandle(t, o)
       \/ CallLayer(t, "enabled")

NextViews ==
    \/ \E t \in Threads : CallViaOnce(t)
    \/ \E t \in Threads : UpgradeInner(t)
    \/ \E t \in Threads : UpgradeLock(t)
    \/ \E t \in Threads : Lock(t)
    \/ \E t \in Threads : Store(t)
    \/ \E t \in Threads : LoadFull(t)
    \/ \E t \in Threads : Apply(t)
    \/ \E t \in Threads : ApplyMid(t)
    \/ \E t \in Threads : StoreNext(t)
    \/ \E t \in Threads : Rebuild(t)
    \/ \E t \in Threads : Return(t)
    \/ \E t \in Threads : Load(t)
    \/ \E t \in Threads : Closure(t)
    \/ CloneLayer
    \/ MakeHandle
    \/ CloneHandle

SpecViews == Init /\ [][NextViews]_vars

\* ================================================================ claims
CritPcs == {"store", "load_full", "apply", "apply_mid", "store_next", "rebuild", "return"}
InCritical(t) == pc[t] \in CritPcs
Done(t, o) == pc[t] = "done" /\ fr[t].op = o
ReadOps == {"with_current", "clone_current", "enabled"}

\* C1: at most one thread is between acquiring and releasing the write guard
\* of reload, modify or on_layer.
C1_WriterMutualExclusion ==
    Cardinality({t \in Threads : InCritical(t)}) <= 1

\* One writer is inside its critical section while a writer of another kind
\* waits for the guard, with a clone of the adapter alive.
C1_Witness ==
    \E t, u \in Threads :
        /\ InCritical(t) /\ pc[u] = "lock"
        /\ fr[t].op = "on_layer" /\ fr[u].op = "modify"
        /\ layers = 2

\* C2: when all concurrent reloads have returned and no conversion panicked,
\* all of them returned Ok, any two of them are ordered (one stored before the
\* other acquired the guard), and the cell holds exactly the input of the
\* reload that acquired the guard last.
C2_LastReloadWins ==
    ( /\ \A t \in Threads : Done(t, "reload")
      /\ \A t \in Threads : fr[t].res # "panic" )
    =>
    /\ \A t \in Threads : fr[t].res = "Ok"
    /\ \A t, u \in Threads :
           t # u => fr[t].at_lock >= fr[u].stored \/ fr[u].at_lock >= fr[t].stored
    /\ \E t \in Threads :
           /\ \A u \in Threads \ {t} : fr[t].at_lock >= fr[u].stored
           /\ inner.val = Into(fr[t].arg)

\* Both reloads have returned Ok with different inputs.
C2_Witness ==
    /\ \A t \in Threads : Done(t, "reload") /\ fr[t].res = "Ok"
    /\ \E t, u \in Threads : fr[t].arg # fr[u].arg

\* C3: a reload that returns Ok has stored its input, and a load executed after
\* it returned yields that Arc or one stored later: never an older one, and the
\* reload's input itself when nothing was stored after it.
C3_LoadAfterReturn(t) ==
    (pc[t] = "load" /\ pc'[t] = "closure") =>
        /\ fr'[t].current.id >= returned.id
        /\ fr'[t].current.id = returned.id => fr'[t].current.val = returned.val

C3_ReloadVisible ==
    /\ [](\A t \in Threads :
             (pc[t] = "return" /\ fr[t].op = "reload") =>
                 fr[t].stored >= 1 /\ fr[t].rebuilt = 1)
    /\ [][\A t \in Threads : C3_LoadAfterReturn(t)]_vars

\* A reader holds the snapshot a returned reload stored, and an adapter
\* delegation has loaded it too.
C3_Witness ==
    /\ returned.id >= 1
    /\ \E t \in Threads :
           /\ fr[t].op \in {"with_current", "enabled"}
           /\ pc[t] \in {"closure", "done"}
           /\ fr[t].current = returned

\* C4 as stated: the value a modify publishes is f applied to the value that
\* was current when the call was invoked.
C4_FromValueAtCall ==
    \A t \in Threads :
        (pc[t] = "return" /\ fr[t].op = "modify") =>
            inner.val = Mutated(at_call[t].val)

\* C4 amended: the value a modify publishes is f applied to a duplicate of the
\* value that was current when the call acquired the write guard; nothing is
\* stored between that load and the modify's own store.
C4_FromValueUnderGuard ==
    \A t \in Threads :
        (pc[t] = "return" /\ fr[t].op = "modify") =>
            /\ fr[t].current.id = fr[t].at_lock
            /\ fr[t].stored = fr[t].current.id + 1
            /\ inner = [id |-> fr[t].stored, val |-> Mutated(fr[t].current.val)]

\* A modify is about to return after another write changed the value between
\* its invocation and its load.
C4_Witness ==
    \E t \in Threads :
        /\ pc[t] = "return" /\ fr[t].op = "modify"
        /\ fr[t].current.val # at_call[t].val

\* C5: a handle operation invoked after the adapter and all its clones were
\* destroyed fails with owner-gone (clone_current: None) and neither loads nor
\* stores.
C5_OwnerGone ==
    \A t \in Threads :
        (pc[t] = "done" /\ fr[t].op \in HandleOps /\ at_call[t].gone) =>
            /\ fr[t].res = IF fr[t].op = "clone_current" THEN "None" ELSE "SubscriberGone"
            /\ fr[t].current = NoArc
            /\ fr[t].stored = -1

\* C6: a reload or modify invoked on a poisoned mutex returns the poisoned
\* error without storing while an adapter exists, and a poisoned mutex stays
\* poisoned with the cell unchanged.
C6_PoisonedWrites ==
    \A t \in Threads :
        (pc[t] = "done" /\ fr[t].op \in {"reload", "modify"}
            /\ at_call[t].poisoned /\ layers > 0) =>
            fr[t].res = "Poisoned" /\ fr[t].stored = -1

C6_PoisonPermanent ==
    /\ []C6_PoisonedWrites
    /\ [][modify_lock.poisoned => modify_lock'.poisoned /\ inner' = inner]_vars

\* A reload and a modify invoked after the poisoning have both returned the
\* poisoned error.
C6_Witness ==
    \E t, u \in Threads :
        /\ Done(t, "reload") /\ Done(u, "modify")
        /\ at_call[t].poisoned /\ at_call[u].poisoned
        /\ fr[t].res = "Poisoned" /\ fr[u].res = "Poisoned"
        /\ layers > 0

\* C7: a modify whose closure panicked stored nothing and the cell keeps the
\* Arc it loaded; reads invoked on a poisoned mutex while an adapter exists
\* succeed with the value in the cell; with_current fails only with owner-gone.
C7_PoisonLeavesReads ==
    \A t \in Threads :
        /\ (Done(t, "modify") /\ fr[t].res = "panic") =>
               fr[t].stored = -1 /\ inner = fr[t].current
        /\ (pc[t] = "done" /\ fr[t].op \in ReadOps /\ at_call[t].poisoned /\ layers > 0) =>
               /\ fr[t].res = IF fr[t].op = "clone_current" THEN "Some" ELSE "Ok"
               /\ fr[t].current = inner
               /\ fr[t].op # "enabled" => fr[t].out = inner.val
        /\ Done(t, "with_current") => fr[t].res \in {"Ok", "SubscriberGone"}

\* A modify panicked in its closure and a with_current invoked afterwards has
\* returned Ok.
C7_Witness ==
    \E t, u \in Threads :
        /\ Done(t, "modify") /\ fr[t].res = "panic"
        /\ Done(u, "with_current") /\ at_call[u].poisoned /\ fr[u].res = "Ok"

\* C8: a read never takes the write guard, and each of its steps can be taken
\* in every state, whoever holds the guard.
C8_ReadersNeverWait ==
    \A t \in Threads :
        (Running(t) /\ fr[t].op \in ReadOps) =>
            /\ pc[t] \in {"upgrade_inner", "load", "closure"}
            /\ ~fr[t].up_lock
            /\ pc[t] = "upgrade_inner" => ENABLED UpgradeInner(t)
            /\ pc[t] = "load" => ENABLED Load(t)
            /\ pc[t] = "closure" => ENABLED Closure(t)

\* A with_current has completed with the Arc a writer stored while that writer
\* is still inside its critical section, and another read is in progress.
C8_Witness ==
    \E t, u \in Threads :
        /\ pc[u] \in {"rebuild", "return"}
        /\ Done(t, "with_current") /\ fr[t].res = "Ok"
        /\ fr[t].current.id = fr[u].stored

\* C9: a reload or modify that returned Ok rebuilt the interest cache exactly
\* once, and one that failed or panicked did not rebuild it.
C9_RebuildOncePerSuccess ==
    \A t \in Threads :
        (pc[t] = "done" /\ fr[t].op \in {"reload", "modify"}) =>
            fr[t].rebuilt = IF fr[t].res = "Ok" THEN 1 ELSE 0

\* Two reloads of the same input: the second stored a value identical to the
\* one in the cell and still rebuilt the cache.
C9_Witness ==
    \E t, u \in Threads :
        /\ Done(t, "reload") /\ Done(u, "reload")
        /\ fr[t].res = "Ok" /\ fr[u].res = "Ok"
        /\ fr[u].stored = fr[t].stored + 1
        /\ fr[u].arg = fr[t].arg
        /\ fr[u].rebuilt = 1

\* C10 as stated: every operation that published a value, on_layer included,
\* rebuilt the interest cache before it returned.
C10_EveryWriteRebuilds ==
    \A t \in Threads :
        (pc[t] = "done" /\ fr[t].stored >= 0) => fr[t].rebuilt >= 1

\* C10 amended: a reload or modify that published a value rebuilt the interest
\* cache after its store and before it returned; on_layer publishes without
\* rebuilding it.
C10_HandleWritesRebuild ==
    \A t \in Threads :
        (pc[t] = "done" /\ fr[t].stored >= 0) =>
            IF fr[t].op = "on_layer"
              THEN fr[t].rebuilt = 0
              ELSE fr[t].rebuilt = 1 /\ interest_cache >= fr[t].stored

\* A modify has returned with the cache rebuilt from its value, and an
\* on_layer has returned leaving the cache older than the value it stored.
C10_Witness ==
    \E t, u \in Threads :
        /\ Done(t, "modify") /\ fr[t].stored >= 0 /\ fr[t].rebuilt = 1
        /\ Done(u, "on_layer") /\ fr[u].stored > interest_cache

\* C11: every handle (from new, handle() or a clone of a handle) and every
\* clone of the adapter points to the one cell and the one mutex that `new`
\* made, so every call acts on that cell whatever it is made through; and a
\* load made through any handle or adapter after a reload or modify made
\* through any handle has returned Ok yields what that write stored or
\* something stored later.
C11_OneCell ==
    /\ \A v \in BagToSet(adapters) \cup BagToSet(handles) : v = View0
    /\ \A t \in Threads : fr[t].via \in {NoView, View0}

C11_Observed(t, u) ==
    (pc[t] = "load" /\ pc'[t] = "closure"
        /\ pc[u] = "done" /\ fr[u].op \in {"reload", "modify"} /\ fr[u].res = "Ok") =>
        /\ fr[t].via.cell = fr[u].via.cell
        /\ fr'[t].current.id >= fr[u].stored
        /\ (fr'[t].current.id = fr[u].stored /\ fr[u].op = "reload") =>
               fr'[t].current.val = Into(fr[u].arg)

C11_SharedViews ==
    /\ []C11_OneCell
    /\ [][\A t, u \in Threads : C11_Observed(t, u)]_vars

\* With three handles and two adapters alive, a with_current made through one
\* handle has returned the value that a reload made through a handle stored.
C11_Witness ==
    /\ BagCardinality(handles) = 3
    /\ BagCardinality(adapters) = 2
    /\ \E t, u \in Threads :
           /\ Done(u, "reload") /\ fr[u].res = "Ok"
           /\ Done(t, "with_current") /\ fr[t].res = "Ok"
           /\ fr[t].current.id = fr[u].stored
           /\ fr[t].out = Into(fr[u].arg)

\* C12: a pure delegation of the adapter loads the cell exactly once, and the
\* result it returns is the result of the same call on the value it loaded:
\* the adapter enables exactly what the wrapped value enables.
C12_OneLoad(t) ==
    (fr[t].op = "enabled" /\ fr'[t].op = "enabled"
        /\ fr'[t].current # fr[t].current /\ fr'[t].current # NoArc) =>
        /\ fr[t].current = NoArc
        /\ fr'[t].current = inner

C13_CellLifetime ==
    /\ (InnerStrong > 0) <=> (layers > 0)
    /\ (LockStrong > 0) <=> (layers + dropping > 0)
    /\ (layers + dropping = 0) =>
           \A t \in Threads :
               (Running(t) /\ fr[t].op \in HandleOps) =>
                   pc[t] \in {"upgrade_inner", "upgrade_lock"}

\* A call that panicked without ever holding the write guard: the panic does
\* not come from the caller's conversion or closure but from an error condition.
PanickedOnError(t) ==
    pc[t] = "done" /\ fr[t].res = "panic" /\ fr[t].at_lock = -1

\* What each operation can return: completion or an explicit failure value.
Results(o) ==
    CASE o \in {"reload", "modify"} -> {"Ok", "SubscriberGone", "Poisoned"}
      [] o = "with_current"         -> {"Ok", "SubscriberGone"}
      [] o = "clone_current"        -> {"Some", "None"}
      [] o = "enabled"              -> {"Ok"}
      [] o = "on_layer"             -> {"Ok", "noop"}

\* C14 as stated: no operation, on_layer included, panics because of an error
\* condition: each completes or returns an explicit failure value.
C14_NoPanicOnError ==
    \A t \in Threads :
        pc[t] = "done" =>
            /\ ~PanickedOnError(t)
            /\ fr[t].res # "panic" => fr[t].res \in Results(fr[t].op)

\* C14 amended: the handle operations and the pure delegations complete or
\* return an explicit failure value and never panic because of an error
\* condition; on_layer alone panics, when it finds the mutex poisoned (and its
\* thread is not already unwinding), and then it has stored nothing.
C14_OnlyOnLayerPanics ==
    \A t \in Threads :
        pc[t] = "done" =>
            /\ fr[t].res # "panic" => fr[t].res \in Results(fr[t].op)
            /\ PanickedOnError(t) =>
                   /\ fr[t].op = "on_layer"
                   /\ modify_lock.poisoned
                   /\ fr[t].stored = -1

\* An on_layer has panicked on the poisoned mutex while a reload invoked on the
\* same poisoned mutex has returned the poisoned error.
C14_Witness ==
    \E t, u \in Threads :
        /\ Done(t, "on_layer") /\ PanickedOnError(t)
        /\ Done(u, "reload") /\ fr[u].res = "Poisoned"

\* A value as a conversion builds it or a callback that ran to its end leaves
\* it; a value caught between a callback's two updates is not complete.
Complete(v) == v[1] = v[2]

\* C15: the cell and every snapshot a thread has loaded hold a complete value
\* (the initial one, a reload's input, or the result of a callback that ran to
\* its end), whatever a writer's private duplicate looks like meanwhile; what a
\* reader returns is its snapshot; and a snapshot a thread holds is not changed
\* by any later step.
C15_SnapshotKept(t) ==
    (fr[t].current # NoArc /\ fr'[t].current # NoArc) => fr'[t].current = fr[t].current

C15_NoTornValue ==
    /\ [](/\ Complete(inner.val)
          /\ \A t \in Threads :
               /\ fr[t].current # NoArc => Complete(fr[t].current.val)
               /\ (pc[t] = "done" /\ fr[t].op \in {"with_current", "clone_current"}
                      /\ fr[t].res \in {"Ok", "Some"}) => fr[t].out = fr[t].current.val)
    /\ [][\A t \in Threads : C15_SnapshotKept(t)]_vars

\* A reader holds a snapshot older than the value in the cell while a writer's
\* private duplicate is half mutated.
C15_Witness ==
    \E t, u \in Threads :
        /\ pc[t] = "closure" /\ fr[t].current.id < inner.id
        /\ pc[u] = "apply_mid" /\ ~Complete(fr[u].next)

\* C16: every invoked handle operation returns (with its result or a failure):
\* under fair scheduling no call stays in progress forever; the only step that
\* can wait is the acquisition of the write guard, and it waits only while
\* another thread is inside its critical section.
C16_WaitsOnlyForWriter ==
    \A t \in Threads :
        (Running(t) /\ fr[t].op \in HandleOps) =>
            \/ ENABLED Step(t)
            \/ ENABLED Acquire(t)
            \/ /\ pc[t] = "lock"
               /\ modify_lock.locked
               /\ \E u \in Threads \ {t} : InCritical(u)

C16_Completion ==
    /\ []C16_WaitsOnlyForWriter
    /\ \A t \in Threads :
           (Running(t) /\ fr[t].op \in HandleOps) ~> (pc[t] = "done")

\* A reload waits for the guard while a modify is inside its critical section.
C16_Witness ==
    \E t, u \in Threads :
        /\ pc[t] = "lock" /\ fr[t].op = "reload"
        /\ InCritical(u) /\ fr[u].op = "modify"
        /\ modify_lock.locked

\* C17: in reload and modify the interest cache is rebuilt after the call's own
\* store and while the call still holds the write guard: when the rebuild runs,
\* the cell holds the Arc this call stored, no other writer is inside a guard
\* scope, and the cache is rebuilt from that Arc.
C17_RebuildStep(t) ==
    (pc[t] = "rebuild" /\ pc'[t] # "rebuild") =>
        /\ pc'[t] = "return"
        /\ fr[t].stored = inner.id
        /\ interest_cache' = fr[t].stored
        /\ inner' = inner
        /\ modify_lock.locked /\ modify_lock'.locked

C17_RebuildUnderGuard ==
    /\ [](\A t \in Threads :
             pc[t] = "rebuild" =>
                 /\ fr[t].op \in {"reload", "modify"}
                 /\ modify_lock.locked
                 /\ fr[t].stored = inner.id
                 /\ \A u \in Threads \ {t} : ~InCritical(u))
    /\ [][\A t \in Threads : C17_RebuildStep(t)]_vars

\* A modify has stored and is about to rebuild the cache, which still dates
\* from an older value, while another writer waits for the guard.
C17_Witness ==
    \E t, u \in Threads :
        /\ pc[t] = "rebuild" /\ fr[t].op = "modify"
        /\ interest_cache < fr[t].stored
        /\ pc[u] = "lock" /\ fr[u].op \in WriteOps

\* C18: an on_layer that finds the mutex poisoned returns as a no-op when its
\* thread is already panicking and panics otherwise, and in both cases it has
\* neither loaded, duplicated nor stored and leaves the cell as it is; an
\* on_layer that acquires the guard publishes the duplicate of the value it
\* loaded under the guard, with the wrapped value's own on_layer applied to it.
C18_PoisonedStep(t) ==
    (pc[t] = "lock" /\ fr[t].op = "on_layer" /\ pc'[t] # "lock" /\ modify_lock.poisoned) =>
        /\ pc'[t] = "done"
        /\ fr'[t].res = IF fr'[t].panicking THEN "noop" ELSE "panic"
        /\ fr'[t].current = NoArc /\ fr'[t].next = NoVal /\ fr'[t].stored = -1
        /\ inner' = inner
        /\ modify_lock' = modify_lock

C18_OnLayer ==
    /\ [](\A t \in Threads :
             /\ (Done(t, "on_layer") /\ fr[t].at_lock = -1) =>
                    /\ modify_lock.poisoned
                    /\ fr[t].res = IF fr[t].panicking THEN "noop" ELSE "panic"
                    /\ fr[t].current = NoArc /\ fr[t].stored = -1
             /\ (pc[t] = "return" /\ fr[t].op = "on_layer") =>
                    /\ fr[t].current.id = fr[t].at_lock
                    /\ fr[t].stored = fr[t].current.id + 1
                    /\ inner = [id |-> fr[t].stored, val |-> Mutated(fr[t].current.val)])
    /\ [][\A t \in Threads : C18_PoisonedStep(t)]_vars

\* One on_layer has published on the unpoisoned mutex, and a later one, on a
\* thread already panicking, has returned as a no-op from the poisoned mutex.
C18_Witness ==
    \E t, u \in Threads :
        /\ Done(t, "on_layer") /\ fr[t].res = "Ok" /\ fr[t].stored >= 1
        /\ Done(u, "on_layer") /\ fr[u].res = "noop" /\ fr[u].panicking
        /\ inner.id >= fr[t].stored

\* The writer that acquired the guard when the cell held its k-th Arc.
WriterAt(k) == CHOOSE t \in Threads : fr[t].at_lock = k

\* The value the cell holds after the first k writes, applied one after another
\* in the order the writers acquired the guard; the first writer, when it is a
\* modify or an on_layer, has loaded the initial Arc.
RECURSIVE Serial(_)
Serial(k) ==
    IF k = 0
      THEN fr[WriterAt(0)].current.val
      ELSE LET t == WriterAt(k - 1) IN
           IF fr[t].op = "reload" THEN Into(fr[t].arg) ELSE Mutated(Serial(k - 1))

\* C19: when concurrent modify, reload and on_layer calls have all succeeded,
\* each acquired the guard after a different number of stores, every one of
\* them stored once, and the cell holds the value obtained by applying them one
\* after another, in guard order, to the initial value: no update is lost.
C19_Serializable ==
    (\A t \in Threads : pc[t] = "done" /\ fr[t].op \in WriteOps /\ fr[t].res = "Ok") =>
        /\ {fr[t].at_lock : t \in Threads} = 0 .. (NumThreads - 1)
        /\ \A t \in Threads : fr[t].stored = fr[t].at_lock + 1
        /\ fr[WriterAt(0)].op # "reload" => fr[WriterAt(0)].current.id = 0
        /\ inner.id = NumThreads
        /\ inner.val = Serial(NumThreads)

\* A modify and an on_layer, invoked concurrently, have both succeeded: the
\* cell holds the initial value with both mutations applied.
C19_Witness ==
    /\ \A t \in Threads : pc[t] = "done" /\ fr[t].res = "Ok"
    /\ \E t, u \in Threads :
           /\ fr[t].op = "modify" /\ fr[u].op = "on_layer"
           /\ inner.val = Mutated(Mutated(fr[WriterAt(0)].current.val))

\* A call made by the closure of a with_current on the same thread.
Nested(t) == fr[t].outer # NoArc

\* C20: a reload or modify called from inside a with_current closure is never
\* blocked by its own thread (with_current holds no guard, so the nested call
\* waits at most for another thread's critical section) and returns; when it
\* returned Ok its store is published, newer than the closure's snapshot; and
\* the closure goes on with the snapshot it was given, which is what
\* with_current returns from.
C20_NotBlockedBySelf ==
    \A t \in Threads :
        (Nested(t) /\ pc[t] = "lock" /\ modify_lock.locked) =>
            \E u \in Threads \ {t} : InCritical(u)

C20_AfterNested ==
    \A t \in Threads :
        (fr[t].op = "with_current" /\ fr[t].nested # NoNested) =>
            /\ fr[t].nested.res \in {"Ok", "Poisoned", "panic"}
            /\ fr[t].nested.res = "Ok" =>
                   /\ fr[t].nested.stored > fr[t].current.id
                   /\ inner.id >= fr[t].nested.stored
            /\ fr[t].nested.res # "Ok" => fr[t].nested.stored = -1
            /\ pc[t] = "done" =>
                   IF fr[t].nested.res = "panic"
                     THEN fr[t].res = "panic"
                     ELSE fr[t].res = "Ok" /\ fr[t].out = fr[t].current.val

C20_ResumeStep(t) ==
    (Nested(t) /\ ~Nested(t)') =>
        /\ fr'[t].op = "with_current"
        /\ fr'[t].current = fr[t].outer

C20_ReentrantWrite ==
    /\ [](C20_NotBlockedBySelf /\ C20_AfterNested)
    /\ [][\A t \in Threads : C20_ResumeStep(t)]_vars
    /\ \A t \in Threads : Nested(t) ~> (pc[t] = "done" /\ fr[t].op = "with_current")

\* A with_current has returned the snapshot it was given although the write
\* its closure made has published a different value, which is now in the cell.
C20_Witness ==
    \E t \in Threads :
        /\ Done(t, "with_current") /\ fr[t].res = "Ok"
        /\ fr[t].nested.res = "Ok"
        /\ inner.id = fr[t].nested.stored
        /\ fr[t].out # inner.val

====
